---- MODULE Spec2Model ----
(***************************************************************************)
(* A model of the SAM 2 segmentation service                               *)
(*   python-backend/sam2_service/main.py            (HTTP handlers)       *)
(*   python-backend/sam2_service/sam2_predictor.py  (SAM2Predictor)       *)
(*                                                                         *)
(* Spec            the service: startup, /load-model, /health, /segment,   *)
(*                 the thread pool that runs the inference jobs.           *)
(* SpecEverything  the post-processing of 'everything' mode as a pure      *)
(*                 function of the candidate list the mask generator       *)
(*                 returns.                                                *)
(***************************************************************************)
EXTENDS Integers, Sequences, FiniteSets, TLC

(***************************************************************************)
(* Bounds of the model.                                                    *)
(***************************************************************************)
\* Pixels a generated candidate mask may cover: a mask is the set of its
\* true pixels, candidate k covers the pixels 1..k (k = 0: the empty mask).
NumPixels == 5
\* Length of the freely chosen part of a candidate list.
MaxCands == 3
\* A long candidate list is at most FillHeadLen free candidates followed by
\* max_masks - 1 .. max_masks + ExtraFill one-pixel candidates on pixels of
\* their own.
FillHeadLen == 2
ExtraFill == 1
\* Free candidates ahead of the fill in the lists of SpecGreedy.
GreedyHeadLen == 1
\* POST /load-model requests that may be in flight at once.
MaxLoads == 2
\* POST /segment requests that may be in flight at once.
MaxReqs == 1
\* Boxes in a 'boxes' prompt.
MaxBoxes == 2
\* Rows and columns of a mask to encode.
MaskH == 2
MaskW == 2
\* Masks in a response whose entries are encoded.
EncListLen == 2
\* POST /segment requests in flight at once in the runs of the worker pool.
PoolReqs == 4
\* Segment requests in flight at a time in SpecFair.
FairReqs == 3
\* A boxes request with more boxes than max_masks.
ManyBoxes == 26

(***************************************************************************)
(* Program constants.                                                      *)
(***************************************************************************)
\* sam2_predictor.py:173  max_masks = 25
max_masks == 25
\* sam2_predictor.py:212  overlap_threshold = 0.6, as the fraction 6/10
overlap_threshold_num == 6
overlap_threshold_den == 10
\* main.py:53  ThreadPoolExecutor(max_workers=2)
max_workers == 2

VARIABLES
    evInput,    \* the list mask_generator.generate(image) returned
    evOutput,   \* <<what segment_everything returned for it>>, <<>> before it ran
    encInput,   \* what inference returned to segment_image (masks as boolean
                \* arrays, scores) and the masks whose encoding raises
    encOutput,  \* <<the response segment_image built from it>>, <<>> before
    sam2Installed,  \* the environment: can the sam2 package be imported?
    ckpt,       \* the checkpoint file models_dir/sam2_hiera_tiny.pt:
                \* "absent", "partial" (truncated) or "complete"
    phase,      \* "boot", "startup_download" (startup_event awaits the
                \* download) or "serving" (startup over, requests accepted)
    predictor,  \* main.predictor: "None" or "Obj", a SAM2Predictor
    model,      \* predictor.model: 0 for None, else the number of the built model
    imgPredictor,   \* predictor.predictor: 0 for None, else the number of the
                \* model its SAM2ImagePredictor wraps
    built,      \* models built so far (the next model's number is built + 1)
    loadPc,     \* per /load-model request slot: "idle" or "downloading"
    loadOutcome,    \* history: how the last finished load_model call ended:
                \* "never" (none has), "ok" or "failed"
    curImage,   \* the image set on predictor.predictor (set_image), "none"
                \* on a SAM2ImagePredictor no image was set on
    rpc,        \* per /segment request slot: "idle", "queued" (job in the
                \* executor's queue) or "running" (a worker runs it)
    req,        \* per slot: the request's arguments as run_segmentation got them
    job,        \* per slot: the job's progress and result
    queue,      \* the executor's work queue: slots, oldest first
    resp        \* the response the last step sent, NoResponse if it sent none

evVars == <<evInput, evOutput, encInput, encOutput>>
lifeVars == <<ckpt, phase, predictor, model, imgPredictor, built, loadPc,
              loadOutcome, curImage>>
segVars == <<rpc, req, job, queue>>
svcVars == <<sam2Installed, ckpt, phase, predictor, model, imgPredictor, built,
             loadPc, loadOutcome, curImage, rpc, req, job, queue, resp>>
vars == <<evInput, evOutput, encInput, encOutput, sam2Installed, ckpt, phase, predictor, model,
          imgPredictor, built, loadPc, loadOutcome, curImage, rpc, req, job,
          queue, resp>>

(***************************************************************************)
(* Sequences.                                                              *)
(***************************************************************************)
\* seq[:n]
Take(seq, n) == SubSeq(seq, 1, IF n < Len(seq) THEN n ELSE Len(seq))

(***************************************************************************)
(* SAM2Predictor._calculate_mask_iou: the masks as boolean arrays are the  *)
(* sets of their true pixels; the quotient float(intersection) /           *)
(* float(union) is kept as the pair <<intersection, union>>, 0.0 as        *)
(* <<0, 1>>.                                                               *)
(***************************************************************************)
calculate_mask_iou(mask1, mask2) ==
    LET intersection == Cardinality(mask1 \cap mask2)
        union == Cardinality(mask1 \cup mask2)
    IN  IF union = 0 THEN <<0, 1>> ELSE <<intersection, union>>

\* A test that takes an IoU of exactly the threshold for an overlap.
IouOverThresholdInclusive(iou) ==
    iou[1] * overlap_threshold_den >= overlap_threshold_num * iou[2]

\* iou > overlap_threshold (sam2_predictor.py:226). The quotient of two pixel
\* counts is compared with 0.6 exactly: n/d > 6/10 iff 10 n > 6 d, and the
\* double nearest n/d is above the double 0.6 exactly when n/d > 3/5.
IouOverThreshold(iou) ==
    iou[1] * overlap_threshold_den > overlap_threshold_num * iou[2]

(***************************************************************************)
(* sorted(masks, key=lambda x: x['predicted_iou'], reverse=True): Python's *)
(* sort is stable, also with reverse=True: candidates of equal score keep  *)
(* their order.                                                            *)
(***************************************************************************)
\* The candidates of score k, in their order in masks.
WithScore(masks, k) == SelectSeq(masks, LAMBDA m : m.predicted_iou = k)

RECURSIVE SortByKeys(_, _)
SortByKeys(masks, keys) ==
    IF keys = {} THEN <<>>
    ELSE LET k == CHOOSE x \in keys : \A y \in keys : y <= x
         IN  WithScore(masks, k) \o SortByKeys(masks, keys \ {k})

SortByScoreDesc(masks) ==
    SortByKeys(masks, {masks[i].predicted_iou : i \in 1..Len(masks)})

(***************************************************************************)
(* SAM2Predictor._filter_overlapping_masks.                                *)
(***************************************************************************)
\* A test that looks at the last selected mask only.
IsOverlappingLastOnly(current_mask, filtered_masks) ==
    /\ filtered_masks # <<>>
    /\ IouOverThreshold(
           calculate_mask_iou(current_mask.segmentation,
                              filtered_masks[Len(filtered_masks)].segmentation))

\* The loop body's test: does current overlap a mask selected so far?
IsOverlapping(current_mask, filtered_masks) ==
    \E i \in 1..Len(filtered_masks) :
        IouOverThreshold(calculate_mask_iou(current_mask.segmentation,
                                            filtered_masks[i].segmentation))

\* A loop that puts each selected mask in front of those selected before.
RECURSIVE FilterLoopPrepend(_, _)
FilterLoopPrepend(sorted_masks, filtered_masks) ==
    IF sorted_masks = <<>> THEN filtered_masks
    ELSE LET current_mask == Head(sorted_masks)
         IN  FilterLoopPrepend(Tail(sorted_masks),
                               IF IsOverlapping(current_mask, filtered_masks)
                               THEN filtered_masks
                               ELSE <<current_mask>> \o filtered_masks)

RECURSIVE FilterLoop(_, _)
FilterLoop(sorted_masks, filtered_masks) ==
    IF sorted_masks = <<>> THEN filtered_masks
    ELSE LET current_mask == Head(sorted_masks)
         IN  FilterLoop(Tail(sorted_masks),
                        IF IsOverlapping(current_mask, filtered_masks)
                        THEN filtered_masks
                        ELSE Append(filtered_masks, current_mask))

filter_overlapping_masks(masks) ==
    IF Len(masks) <= 1 THEN masks
    ELSE FilterLoop(SortByScoreDesc(masks), <<>>)

(***************************************************************************)
(* SAM2Predictor.segment_everything, from the generator's list on.         *)
(***************************************************************************)
\* Truncation to max_masks before the overlap filter instead of after it.
TruncateBeforeFilter(masks) ==
    SortByScoreDesc(filter_overlapping_masks(Take(SortByScoreDesc(masks), max_masks)))

\* Lines 169-174: filter, sort by score, keep the first max_masks.
PostProcess(masks) ==
    Take(SortByScoreDesc(filter_overlapping_masks(masks)), max_masks)

\* Lines 166-189: the returned dictionary.
segment_everything(masks) ==
    LET filtered_masks == PostProcess(masks)
    IN  [masks  |-> [i \in 1..Len(filtered_masks) |-> filtered_masks[i].segmentation],
         scores |-> [i \in 1..Len(filtered_masks) |-> filtered_masks[i].predicted_iou]]

(***************************************************************************)
(* The candidate lists the mask generator may return.                      *)
(***************************************************************************)
\* predicted_iou: a low and a high score.
Scores == {1, 2}

\* The freely chosen candidates: the mask 1..size with any score.
FreeCands == [size : 0..NumPixels, score : Scores]

FreeLists(maxLen) == UNION {[1..n -> FreeCands] : n \in 0..maxLen}

FillCounts == (max_masks - 1)..(max_masks + ExtraFill)

\* The list: the free candidates, then nFill one-pixel candidates on pixels
\* of their own, all of the low score. id is the identity of the candidate's
\* dictionary: its place in the generator's list.
CandList(free, nFill) ==
    [i \in 1..(Len(free) + nFill) |->
        IF i <= Len(free)
        THEN [id |-> i, segmentation |-> 1..free[i].size,
              predicted_iou |-> free[i].score]
        ELSE [id |-> i, segmentation |-> {NumPixels + i}, predicted_iou |-> 1]]

GeneratedLists ==
    {CandList(free, 0) : free \in FreeLists(MaxCands)}
    \cup {CandList(h[1], h[2]) : h \in FreeLists(FillHeadLen) \X FillCounts}

(***************************************************************************)
(* encode_mask_to_base64 (main.py:97-123). A mask is a boolean array: the  *)
(* sequence of its rows, each a sequence of BOOLEAN. An image file is the  *)
(* sequence of its bytes, a base64 text the sequence of its characters'    *)
(* values 0..63, with 64 for the padding '='; '' is <<>>.                  *)
(***************************************************************************)
Height(array) == Len(array)
Width(array) == Len(array[1])

\* A conversion that writes true as 1.
mask_uint8_as_one(mask) ==
    [r \in 1..Height(mask) |->
        [c \in 1..Width(mask) |-> IF mask[r][c] THEN 1 ELSE 0]]

\* Line 110: (mask * 255).astype(np.uint8).
mask_uint8(mask) ==
    [r \in 1..Height(mask) |->
        [c \in 1..Width(mask) |-> ((IF mask[r][c] THEN 1 ELSE 0) * 255) % 256]]

\* Line 113: Image.fromarray(mask_uint8, mode='L'): an 8-bit greyscale image
\* of size (width, height).
Image_fromarray(array) ==
    [mode |-> "L", size |-> <<Width(array), Height(array)>>, rows |-> array]

\* A 32-bit number as four bytes, most significant first.
BigEndian32(n) ==
    <<(n \div 16777216) % 256, (n \div 65536) % 256, (n \div 256) % 256, n % 256>>

RECURSIVE Flatten(_)
Flatten(seqs) == IF seqs = <<>> THEN <<>> ELSE Head(seqs) \o Flatten(Tail(seqs))

\* Lines 116-117: mask_image.save(buffer, format='PNG'). Of the file this
\* keeps the header's width and height and the image data, one scanline per
\* row, each led by its filter byte (0: none); the signature, the chunk
\* framing and the lossless compression of the data are left out.
save_png(image) ==
    BigEndian32(image.size[1]) \o BigEndian32(image.size[2])
        \o Flatten([r \in 1..image.size[2] |-> <<0>> \o image.rows[r]])

Shift64 == <<262144, 4096, 64, 1>>
Shift256 == <<65536, 256, 1>>
Pad == 64

\* Line 118: base64.b64encode(...).decode('utf-8'): each group of three
\* bytes gives four characters of six bits; a last group of one or two bytes
\* is filled with zero bits and padded with '='.
b64encode(bytes) ==
    LET n == Len(bytes)
        byte(i) == IF i <= n THEN bytes[i] ELSE 0
        group(g) == byte(3 * g - 2) * 65536 + byte(3 * g - 1) * 256 + byte(3 * g)
    IN  [k \in 1..(4 * ((n + 2) \div 3)) |->
            LET g == (k + 3) \div 4
                pos == (k - 1) % 4
                given == IF n - 3 * (g - 1) >= 3 THEN 3 ELSE n - 3 * (g - 1)
            IN  IF pos > given THEN Pad
                ELSE (group(g) \div Shift64[pos + 1]) % 64]

\* Lines 99-123 for a mask that is a numpy array: the text, or '' when a
\* step raises.
encode_mask_to_base64(mask, raises) ==
    IF raises THEN <<>>
    ELSE b64encode(save_png(Image_fromarray(mask_uint8(mask))))

\* np.sum(mask): the number of true pixels.
np_sum(mask) ==
    Cardinality({rc \in (1..Height(mask)) \X (1..Width(mask)) : mask[rc[1]][rc[2]]})

\* Entries for the masks that were encoded only, numbered anew.
encoded_masks_skip_failed(masks, scores, failed) ==
    LET ok == SelectSeq([i \in DOMAIN masks |-> i], LAMBDA i : i \notin failed)
    IN  [k \in DOMAIN ok |->
            [id |-> k - 1,
             mask |-> encode_mask_to_base64(masks[ok[k]], FALSE),
             score |-> IF ok[k] <= Len(scores) THEN scores[ok[k]] ELSE 0,
             area |-> np_sum(masks[ok[k]])]]

\* segment_image, lines 270-279: the response's entries, with the masks at
\* the places in failed those whose encoding raises.
encoded_masks(masks, scores, failed) ==
    [i \in DOMAIN masks |->
        [id |-> i - 1,
         mask |-> encode_mask_to_base64(masks[i], i \in failed),
         score |-> IF i <= Len(scores) THEN scores[i] ELSE 0,
         area |-> np_sum(masks[i])]]

\* An array shaped as PIL sizes the image: (width, height, 3).
process_image_data_as_size(image) ==
    [shape |-> <<image.size[1], image.size[2], 3>>]

\* process_image_data (lines 79-95) on bytes PIL can open: the image, of size
\* (width, height), as an RGB array of shape (height, width, 3).
process_image_data(image) ==
    [shape |-> <<image.size[2], image.size[1], 3>>]

\* segment_image, lines 266-287: the response to a request for result.image
\* whose inference returned result.masks and result.scores.
segment_response(result) ==
    LET entries == encoded_masks(result.masks, result.scores, result.failed)
        image_array == process_image_data(result.image)
    IN  [code |-> 200,
         body |-> [success |-> TRUE, mode |-> result.mode,
                   num_masks |-> Len(entries), masks |-> entries,
                   image_shape |-> Take(image_array.shape, 2)]]

(***************************************************************************)
(* The client's side of the transport: the text back to a boolean array.   *)
(***************************************************************************)
\* base64.b64decode of a padded text.
b64decode(text) ==
    LET groups == Len(text) \div 4
        six(k) == IF text[k] = Pad THEN 0 ELSE text[k]
        group(g) == six(4 * g - 3) * 262144 + six(4 * g - 2) * 4096
                        + six(4 * g - 1) * 64 + six(4 * g)
        pads == Cardinality({k \in DOMAIN text : text[k] = Pad})
    IN  [i \in 1..(3 * groups - pads) |->
            (group((i + 2) \div 3) \div Shift256[((i - 1) % 3) + 1]) % 256]

\* The image read from a file save_png wrote.
open_png(bytes) ==
    LET number(at) == bytes[at] * 16777216 + bytes[at + 1] * 65536
                          + bytes[at + 2] * 256 + bytes[at + 3]
        width == number(1)
        height == number(5)
    IN  [mode |-> "L", size |-> <<width, height>>,
         rows |-> [r \in 1..height |->
                      [c \in 1..width |-> bytes[8 + (r - 1) * (width + 1) + 1 + c]]]]

\* The boolean array of an image: a pixel is true when it is above mid-grey.
image_to_mask(image) ==
    [r \in 1..image.size[2] |-> [c \in 1..image.size[1] |-> image.rows[r][c] > 127]]

decode_mask(text) == image_to_mask(open_png(b64decode(text)))

(***************************************************************************)
(* The model lifecycle: SAM2Predictor.load_model and its callers.          *)
(***************************************************************************)
LoadIds == 1..MaxLoads

\* How a step can fail: the collaborator call that raises in it, if the step
\* gets that far. "ctor": SAM2Predictor() (torch.device, mkdir); "build":
\* build_sam2; "predictor": SAM2ImagePredictor(model).
Faults == {"none", "ctor", "build", "predictor"}

\* How a checkpoint download ends: written in full, requests.get raised
\* before the file was opened, or the stream broke with the file part-written.
Downloads == {"ok", "fail_early", "fail_mid"}

\* The faults that can show in a stretch of load_model that starts with the
\* download over as dl: build_sam2 and SAM2ImagePredictor are reached after a
\* download that succeeded only.
FaultsAfter(dl) == IF dl = "ok" THEN Faults \ {"ctor"} ELSE {"none"}

\* The faults that can show in a caller of load_model from its first line:
\* SAM2Predictor() is called when there is no predictor, build_sam2 and
\* SAM2ImagePredictor when nothing returns, raises or suspends before them.
FaultsFromStart(loaded) ==
    (IF predictor = "None" THEN {"ctor"} ELSE {})
    \cup (IF ~loaded /\ sam2Installed /\ ckpt # "absent"
          THEN {"none", "build", "predictor"} ELSE {"none"})

\* The result of a stretch of load_model: pc is "suspended" (awaiting the
\* download), "returned" or "raised" (with the error's message).
LoadResult(pc, error, m, ip, n) ==
    [pc |-> pc, error |-> error, model |-> m, imgPredictor |-> ip, built |-> n]

\* Lines 118-127: build_sam2 reads the checkpoint file (a truncated one does
\* not load) and self.model is assigned; then SAM2ImagePredictor(self.model)
\* is assigned to self.predictor. A raise in between leaves self.model set.
Build(file, fault) ==
    IF file # "complete" \/ fault = "build"
    THEN LoadResult("raised", "build_sam2 failed", model, imgPredictor, built)
    ELSE IF fault = "predictor"
    THEN LoadResult("raised", "SAM2ImagePredictor failed", built + 1, imgPredictor, built + 1)
    ELSE LoadResult("returned", "", built + 1, built + 1, built + 1)

\* load_model from its first line to the await in download_model (lines
\* 97-116, 69-93): the import, then the download unless the file exists; with
\* the file there nothing suspends and the build follows at once.
load_model_begin(fault) ==
    IF ~sam2Installed
    THEN LoadResult("raised", "SAM 2 package not found", model, imgPredictor, built)
    ELSE IF ckpt = "absent"
    THEN LoadResult("suspended", "", model, imgPredictor, built)
    ELSE Build(ckpt, fault)

\* The file a download leaves. Two downloads write the same path through
\* handles of their own (open(model_path, 'wb') truncates): what one of them
\* leaves while the other still runs is either.
FileAfter(dl, othersDownloading) ==
    CASE dl = "fail_early" -> {ckpt}
      [] dl = "fail_mid"   -> {"partial"}
      [] OTHER             -> IF othersDownloading THEN {"partial", "complete"}
                              ELSE {"complete"}

\* load_model from the end of the download on (lines 93, 118-133).
load_model_resume(dl, file, fault) ==
    IF dl # "ok"
    THEN LoadResult("raised", "download failed", model, imgPredictor, built)
    ELSE Build(file, fault)

\* The history variable's value for a finished load_model.
Outcome(r) == IF r.pc = "raised" THEN "failed" ELSE "ok"

Downloading(t) == loadPc[t] = "downloading"

\* The image set on self.predictor after a stretch r of load_model: a new
\* SAM2ImagePredictor has none.
ImageAfter(r) == IF r.imgPredictor # imgPredictor THEN "none" ELSE curImage

\* The lifecycle state of section 3 of the design, read off the program state:
\* Ready when inference can run (predictor.predictor is set), Loading while a
\* load_model call is under way, Failed when the last one raised.
ModelState ==
    IF predictor = "Obj" /\ imgPredictor # 0 THEN "Ready"
    ELSE IF phase = "startup_download" \/ \E t \in LoadIds : Downloading(t)
    THEN "Loading"
    ELSE IF loadOutcome = "failed" THEN "Failed"
    ELSE "Unloaded"

NoResponse == [op |-> "none"]

ReqIds == 1..MaxReqs
NoRequest == [mode |-> "none"]
NoJob == [pc |-> "none"]

\* The process as uvicorn starts it: no predictor yet; the checkpoint file
\* is there from an earlier run or not.
Init ==
    /\ evInput = <<>>
    /\ evOutput = <<>>
    /\ encInput = <<>>
    /\ encOutput = <<>>
    /\ sam2Installed \in BOOLEAN
    /\ ckpt \in {"absent", "complete"}
    /\ phase = "boot"
    /\ predictor = "None"
    /\ model = 0
    /\ imgPredictor = 0
    /\ built = 0
    /\ loadPc = [t \in LoadIds |-> "idle"]
    /\ loadOutcome = "never"
    /\ curImage = "none"
    /\ rpc = [r \in ReqIds |-> "idle"]
    /\ req = [r \in ReqIds |-> NoRequest]
    /\ job = [r \in ReqIds |-> NoJob]
    /\ queue = <<>>
    /\ resp = NoResponse

\* startup_event to its end or to the await of the download (lines 55-69):
\* whatever is raised is logged and startup completes.
StartupBegin ==
    /\ phase = "boot"
    /\ \E fault \in FaultsFromStart(FALSE) :
        IF fault = "ctor"
        THEN /\ phase' = "serving"
             /\ UNCHANGED <<predictor, model, imgPredictor, built, loadOutcome>>
        ELSE LET r == load_model_begin(fault)
             IN  /\ predictor' = "Obj"
                 /\ model' = r.model
                 /\ imgPredictor' = r.imgPredictor
                 /\ built' = r.built
                 /\ phase' = IF r.pc = "suspended" THEN "startup_download" ELSE "serving"
                 /\ loadOutcome' = IF r.pc = "suspended" THEN loadOutcome ELSE Outcome(r)
    /\ curImage' = "none"
    /\ UNCHANGED <<sam2Installed, ckpt, loadPc, resp, segVars>>
    /\ UNCHANGED evVars

\* The download ends and startup_event runs to its end.
StartupDownloadEnd ==
    /\ phase = "startup_download"
    /\ \E dl \in Downloads :
        \E fault \in FaultsAfter(dl), file \in FileAfter(dl, FALSE) :
            LET r == load_model_resume(dl, file, fault)
            IN  /\ ckpt' = file
                /\ model' = r.model
                /\ imgPredictor' = r.imgPredictor
                /\ built' = r.built
                /\ loadOutcome' = Outcome(r)
    /\ curImage' = "none"
    /\ phase' = "serving"
    /\ UNCHANGED <<sam2Installed, predictor, loadPc, resp, segVars>>
    /\ UNCHANGED evVars

(***************************************************************************)
(* POST /load-model (main.py:201-219).                                     *)
(***************************************************************************)
\* The handler's return value. load is not part of the response: it notes how
\* the request's load_model call ended, "none" when the handler made none.
LoadResponse(status, message, load) ==
    [op |-> "load-model", code |-> 200, load |-> load,
     body |-> [status |-> status, message |-> message]]

\* A handler without the except clause: load_model's exception leaves the
\* handler and is answered as an internal server error.
LoadEndedPropagates(r) ==
    IF r.pc = "raised"
    THEN [op |-> "load-model", code |-> 500, load |-> "raised",
          body |-> [status |-> "error", message |-> "Internal Server Error"]]
    ELSE LoadResponse("success", "Model loaded successfully", "returned")

\* What the handler answers when load_model ended as r.
LoadEnded(r) ==
    IF r.pc = "raised" THEN LoadResponse("error", r.error, "raised")
    ELSE LoadResponse("success", "Model loaded successfully", "returned")

\* A handler that never takes the model for loaded.
model_already_loaded_never == FALSE

\* Line 209: hasattr(predictor, 'model') and predictor.model is not None.
model_already_loaded == model # 0

\* The handler to its return or to the await of the download. A request
\* takes the first free slot.
LoadModelCall(t) ==
    /\ phase = "serving"
    /\ loadPc[t] = "idle"
    /\ \A u \in 1..(t - 1) : loadPc[u] # "idle"
    /\ \E fault \in FaultsFromStart(predictor # "None" /\ model_already_loaded) :
        IF predictor = "None" /\ fault = "ctor"
        THEN /\ resp' = LoadResponse("error", "SAM2Predictor() failed", "none")
             /\ UNCHANGED <<predictor, model, imgPredictor, built, loadPc,
                            loadOutcome, curImage>>
        ELSE IF model_already_loaded
        THEN /\ resp' = LoadResponse("success", "Model already loaded", "none")
             /\ UNCHANGED <<predictor, model, imgPredictor, built, loadPc,
                            loadOutcome, curImage>>
        ELSE LET r == load_model_begin(fault)
             IN  /\ predictor' = "Obj"
                 /\ model' = r.model
                 /\ imgPredictor' = r.imgPredictor
                 /\ built' = r.built
                 /\ curImage' = ImageAfter(r)
                 /\ IF r.pc = "suspended"
                    THEN /\ loadPc' = [loadPc EXCEPT ![t] = "downloading"]
                         /\ resp' = NoResponse
                         /\ UNCHANGED loadOutcome
                    ELSE /\ resp' = LoadEnded(r)
                         /\ loadOutcome' = Outcome(r)
                         /\ UNCHANGED loadPc
    /\ UNCHANGED <<sam2Installed, ckpt, phase, segVars>>
    /\ UNCHANGED evVars

\* The download of request t ends, load_model goes on to its end and the
\* handler answers. The requests that await their downloads differ in
\* nothing, so which of them ends first is immaterial: the one in the
\* highest slot does.
LoadDownloadEnd(t) ==
    /\ Downloading(t)
    /\ \A u \in LoadIds : u > t => ~Downloading(u)
    /\ \E dl \in Downloads :
        \E fault \in FaultsAfter(dl),
           file \in FileAfter(dl, \E u \in LoadIds \ {t} : Downloading(u)) :
            LET r == load_model_resume(dl, file, fault)
            IN  /\ ckpt' = file
                /\ model' = r.model
                /\ imgPredictor' = r.imgPredictor
                /\ built' = r.built
                /\ loadOutcome' = Outcome(r)
                /\ curImage' = ImageAfter(r)
                /\ resp' = LoadEnded(r)
    /\ loadPc' = [loadPc EXCEPT ![t] = "idle"]
    /\ UNCHANGED <<sam2Installed, phase, predictor, segVars>>
    /\ UNCHANGED evVars

(***************************************************************************)
(* GET /health (main.py:162-199).                                          *)
(***************************************************************************)
\* A health check that answers 503 until the model is loaded.
health_check_unavailable ==
    LET model_loaded == predictor # "None" /\ model # 0
    IN  [op |-> "health", code |-> IF model_loaded THEN 200 ELSE 503,
         body |-> [status |-> IF model_loaded THEN "healthy" ELSE "unhealthy",
                   model_loaded |-> model_loaded,
                   device |-> IF predictor # "None" THEN "cpu" ELSE "unknown",
                   service_running |-> model_loaded,
                   message |-> IF ~model_loaded THEN "Model loading in progress..."
                               ELSE "Service ready"]]

\* A health check that is answered once no inference job is queued or runs.
HealthAfterJobs ==
    /\ phase = "serving"
    /\ queue = <<>>
    /\ \A r \in DOMAIN rpc : rpc[r] = "idle"
    /\ resp' = [op |-> "health", code |-> 200,
                 body |-> [status |-> "healthy", model_loaded |-> TRUE,
                           device |-> "cpu", service_running |-> TRUE,
                           message |-> "Service ready"]]
    /\ UNCHANGED <<sam2Installed, ckpt, phase, predictor, model, imgPredictor,
                   built, loadPc, loadOutcome, curImage, rpc, req, job, queue>>
    /\ UNCHANGED evVars

\* The handler's try block: nothing in it raises (predictor is None or a
\* SAM2Predictor, which has device and model), so the except branch is not
\* taken.
health_check ==
    LET model_loaded == predictor # "None" /\ model # 0
    IN  [op |-> "health", code |-> 200,
         body |-> [status |-> "healthy",
                   model_loaded |-> model_loaded,
                   device |-> IF predictor # "None" THEN "cpu" ELSE "unknown",
                   service_running |-> TRUE,
                   message |-> IF ~model_loaded THEN "Model loading in progress..."
                               ELSE "Service ready"]]

Health ==
    /\ phase = "serving"
    /\ resp' = health_check
    /\ UNCHANGED <<sam2Installed, ckpt, phase, predictor, model, imgPredictor,
                   built, loadPc, loadOutcome, curImage, segVars>>
    /\ UNCHANGED evVars

(***************************************************************************)
(* GET /ping (main.py:156-160).                                            *)
(***************************************************************************)
ping == [op |-> "ping", code |-> 200, body |-> [status |-> "pong"]]

Ping ==
    /\ phase = "serving"
    /\ resp' = ping
    /\ UNCHANGED <<sam2Installed, ckpt, phase, predictor, model, imgPredictor,
                   built, loadPc, loadOutcome, curImage, segVars>>
    /\ UNCHANGED evVars

(***************************************************************************)
(* POST /segment and POST /segment-url (main.py:221-359): the two handlers *)
(* differ in where the image bytes come from only.                         *)
(***************************************************************************)
Images == {"imgA", "imgB"}
\* What the request carries as image: the bytes of an image, or bytes that
\* PIL cannot open.
ImageInputs == Images \cup {"bad"}
\* The mode field: the three modes and a string that is none of them.
Modes == {"everything", "points", "boxes", "bogus"}

\* A form field: not sent, a string that is not JSON, or the JSON of a list.
Absent == [kind |-> "absent"]
Malformed == [kind |-> "malformed"]
Json(list) == [kind |-> "json", value |-> list]

\* parsed_points / parsed_boxes: None, or the list json.loads returned.
None == [none |-> TRUE]
Some(list) == [none |-> FALSE, list |-> list]
\* Lines 250-259: a field that was sent is parsed (Malformed raises before).
json_loads(field) == IF field.kind = "absent" THEN None ELSE Some(field.value)
\* Python's truth value of parsed_points / parsed_boxes.
Truthy(v) == ~v.none /\ v.list # <<>>

Point(i) == <<i, i>>
Box(i) == <<i, i, i + 1, i + 1>>
PointForms == {Absent, Malformed, Json(<<>>), Json(<<Point(1)>>)}
BoxForms == {Absent, Malformed} \cup {Json([i \in 1..k |-> Box(i)]) : k \in 0..MaxBoxes}

\* A request with the prompt its mode reads, if any.
Request(image, mode, points, boxes) ==
    [image |-> image, mode |-> mode, points |-> points, boxes |-> boxes]

\* The requests sent to the service: undecodable image bytes; a prompt field
\* that is not JSON; and, on a good image, each mode with every form of the
\* prompt it reads (the other prompt not sent).
SegmentInputs ==
    {Request("bad", "everything", Absent, Absent)}
    \cup {Request("imgA", "everything", Absent, Absent),
          Request("imgA", "bogus", Absent, Absent)}
    \cup {Request("imgA", "points", p, Absent) : p \in PointForms}
    \cup {Request("imgA", "boxes", Absent, b) : b \in BoxForms}

\* An error response. req and calls are not part of a response: they note
\* the request answered and the model calls made for it.
SegmentError(q, code, detail, calls) ==
    [op |-> "segment", req |-> q, code |-> code, detail |-> detail, calls |-> calls]

\* The handler up to the await in run_segmentation (lines 241-264, 147-148).
\* HTTPException is an Exception: the 400 that process_image_data raises
\* inside the try block is caught by the handler's own except clause and
\* leaves as a 500 whose detail is str() of the 400. A request takes the
\* first free slot.
SegmentCall(r, q) ==
    /\ phase = "serving"
    /\ rpc[r] = "idle"
    /\ \A u \in 1..(r - 1) : rpc[u] # "idle"
    /\ IF predictor = "None"
       THEN /\ resp' = SegmentError(q, 503, "SAM 2 model not loaded", <<>>)
            /\ UNCHANGED segVars
       ELSE IF q.image = "bad"
       THEN /\ resp' = SegmentError(q, 500, "400: Invalid image data", <<>>)
            /\ UNCHANGED segVars
       ELSE IF q.points = Malformed \/ q.boxes = Malformed
       THEN /\ resp' = SegmentError(q, 500, "JSONDecodeError", <<>>)
            /\ UNCHANGED segVars
       ELSE /\ rpc' = [rpc EXCEPT ![r] = "queued"]
            /\ req' = [req EXCEPT ![r] =
                          [image |-> q.image, mode |-> q.mode,
                           points |-> json_loads(q.points),
                           boxes |-> json_loads(q.boxes), form |-> q]]
            /\ job' = [job EXCEPT ![r] = NoJob]
            /\ queue' = Append(queue, r)
            /\ resp' = NoResponse
    /\ UNCHANGED <<sam2Installed, ckpt, phase, predictor, model, imgPredictor,
                   built, loadPc, loadOutcome, curImage>>
    /\ UNCHANGED evVars

(***************************************************************************)
(* The inference job: run_segmentation._segment on a worker of the         *)
(* executor, and the SAM2Predictor methods it calls.                       *)
(***************************************************************************)
\* A branch that goes by the prompts the request carries before the mode.
StrategyByPrompt(q) ==
    IF q.mode \notin {"everything", "points", "boxes"} THEN "invalid"
    ELSE IF Truthy(q.points) THEN "points"
    ELSE IF Truthy(q.boxes) THEN "boxes"
    ELSE IF q.mode = "everything" THEN "everything"
    ELSE "invalid"

\* A branch that falls back on what the request carries: an unknown mode
\* runs 'everything', a mode without its prompt the other prompt's method.
StrategyFallback(q) ==
    IF q.mode = "points" /\ Truthy(q.points) THEN "points"
    ELSE IF q.mode = "boxes" /\ Truthy(q.boxes) THEN "boxes"
    ELSE IF q.mode \in {"points", "boxes"} /\ Truthy(q.boxes) THEN "boxes"
    ELSE IF q.mode \in {"points", "boxes"} /\ Truthy(q.points) THEN "points"
    ELSE "everything"

\* _segment's branch (main.py:135-142).
Strategy(q) ==
    IF q.mode = "everything" THEN "everything"
    ELSE IF q.mode = "points" /\ Truthy(q.points) THEN "points"
    ELSE IF q.mode = "boxes" /\ Truthy(q.boxes) THEN "boxes"
    ELSE "invalid"

\* How a model call can fail: it raises ("infer") or not.
ModelFaults == {"none", "infer"}

\* The candidate lists mask_generator.generate returns in the service runs:
\* none, and three candidates of which the second repeats the first.
SampleLists ==
    {CandList(<<>>, 0),
     CandList(<<[size |-> 3, score |-> 1], [size |-> 3, score |-> 2],
                [size |-> 1, score |-> 2]>>, 0)}

\* multimask_output as a boxes job would pass it were it to ask for several
\* masks per box.
boxes_multimask_output_true == TRUE

\* multimask_output of segment_with_points (line 291) and of
\* segment_with_boxes (line 331).
points_multimask_output == TRUE
boxes_multimask_output == FALSE

\* SAM2ImagePredictor.predict on the image set last: three masks with
\* multimask_output, one without. A mask is named by the image it was computed
\* on, the prompt and its place in the output; its score by the place.
predict(image, prompt, multimask_output) ==
    LET n == IF multimask_output THEN <<1, 2, 3>> ELSE <<1>>
    IN  [masks  |-> [i \in DOMAIN n |-> [image |-> image, prompt |-> prompt, n |-> i]],
         scores |-> n]

\* The predict calls of a job: one for all points, one per box, in order.
Prompts(q) ==
    IF Strategy(q) = "points"
    THEN <<[kind |-> "points", prompt |-> q.points.list,
            multimask_output |-> points_multimask_output]>>
    ELSE [i \in DOMAIN q.boxes.list |->
             [kind |-> "box", prompt |-> q.boxes.list[i],
              multimask_output |-> boxes_multimask_output]]

\* A prompted method that cuts what it returns to max_masks masks.
prompted_result_truncated(masks, scores) ==
    [masks |-> Take(masks, max_masks), scores |-> Take(scores, max_masks)]

\* What segment_with_points (lines 294-297) and segment_with_boxes (lines
\* 337-340) return: the masks and scores of the predict calls, as they came.
prompted_result(masks, scores) == [masks |-> masks, scores |-> scores]

\* An attribute of the SAM2Predictor that cleanup deleted (del self.model,
\* del self.predictor, sam2_predictor.py:348-351): reading it raises
\* AttributeError.
Deleted == -1

JobRaised(error, calls) ==
    [pc |-> "raised", error |-> error, calls |-> calls,
     todo |-> <<>>, masks |-> <<>>, scores |-> <<>>]
JobAt(pc, calls, todo, masks, scores) ==
    [pc |-> pc, error |-> "", calls |-> calls,
     todo |-> todo, masks |-> masks, scores |-> scores]

Running == {r \in DOMAIN rpc : rpc[r] = "running"}

\* An executor that takes no job while another waits behind the oldest.
WorkerFreeForShortQueue ==
    Cardinality({r \in DOMAIN rpc : rpc[r] = "running"}) < max_workers /\ Len(queue) < 2

\* An executor that starts a thread for every job submitted.
WorkerAlwaysFree == TRUE

\* ThreadPoolExecutor(max_workers=2): a queued job starts when fewer than
\* max_workers jobs run.
WorkerFree == Cardinality(Running) < max_workers

\* Lines 266-287: the response's entries. The mask's encoding is left out:
\* mask is the mask itself.
EncodedMasks(masks, scores) ==
    [i \in DOMAIN masks |->
        [id |-> i - 1, mask |-> masks[i],
         score |-> IF i <= Len(scores) THEN scores[i] ELSE 0]]

\* A handler that answers a job's exception without its message.
segment_image_return_generic(q, j) ==
    IF j.pc = "raised"
    THEN SegmentError(q.form, 500, "Internal Server Error", j.calls)
    ELSE [op |-> "segment", req |-> q.form, code |-> 200, calls |-> j.calls,
          body |-> [success |-> TRUE, mode |-> q.mode,
                    num_masks |-> Len(j.masks),
                    masks |-> EncodedMasks(j.masks, j.scores),
                    image_shape |-> q.image]]

\* The handler resumed with the result or the exception of job j of request
\* q (lines 262-291): an exception of the job leaves as a 500 with its
\* message.
segment_image_return(q, j) ==
    IF j.pc = "raised"
    THEN SegmentError(q.form, 500, j.error, j.calls)
    ELSE [op |-> "segment", req |-> q.form, code |-> 200, calls |-> j.calls,
          body |-> [success |-> TRUE, mode |-> q.mode,
                    num_masks |-> Len(j.masks),
                    masks |-> EncodedMasks(j.masks, j.scores),
                    image_shape |-> q.image]]

\* The end of job j of request q while shutdown_event blocks the event loop
\* in executor.shutdown: the handler does not resume, no response is sent.
\* The record notes how the job ended.
job_ended(q, j) ==
    [op |-> "job", req |-> q.form, error |-> j.error, calls |-> j.calls]

\* The job of request r ended as j: its worker is free, and the handler
\* resumes and answers, unless the service is shutting down.
SegmentReturn(r, j) ==
    /\ resp' = IF phase = "serving" THEN segment_image_return(req[r], j)
               ELSE job_ended(req[r], j)
    /\ rpc' = [rpc EXCEPT ![r] = "idle"]
    /\ req' = [req EXCEPT ![r] = NoRequest]
    /\ job' = [job EXCEPT ![r] = NoJob]

\* A free worker takes the oldest queued job and runs _segment up to the
\* return of its first model call: generate and the post-processing in
\* 'everything' mode, set_image in the prompted modes. calls lists the model
\* calls made for the job. A job that ends here is answered in the same step.
JobStart(r) ==
    /\ queue # <<>>
    /\ Head(queue) = r
    /\ WorkerFree
    /\ queue' = Tail(queue)
    /\ \E fault \in ModelFaults,
          cands \in (IF Strategy(req[r]) = "everything" THEN SampleLists
                     ELSE {<<>>}) :
        LET q == req[r]
            ended(j) == SegmentReturn(r, j) /\ UNCHANGED curImage
        IN  IF Strategy(q) = "invalid"
            THEN ended(JobRaised("Invalid segmentation mode", <<>>))
            ELSE IF imgPredictor = Deleted
            THEN ended(JobRaised("AttributeError", <<>>))
            ELSE IF imgPredictor = 0
            THEN ended(JobRaised("Model not loaded", <<>>))
            ELSE IF Strategy(q) = "everything"
            THEN IF fault = "infer"
                 THEN ended(JobRaised("generate failed", <<<<"generate", q.image>>>>))
                 ELSE LET out == segment_everything(cands)
                      IN  ended(JobAt("returned", <<<<"generate", q.image>>>>, <<>>,
                                      out.masks, out.scores))
            ELSE IF fault = "infer"
            THEN ended(JobRaised("set_image failed", <<<<"set_image", q.image>>>>))
            ELSE /\ curImage' = q.image
                 /\ job' = [job EXCEPT ![r] =
                               JobAt("predict", <<<<"set_image", q.image>>>>,
                                     Prompts(q), <<>>, <<>>)]
                 /\ rpc' = [rpc EXCEPT ![r] = "running"]
                 /\ resp' = NoResponse
                 /\ UNCHANGED req
    /\ UNCHANGED <<sam2Installed, ckpt, phase, predictor, model, imgPredictor,
                   built, loadPc, loadOutcome>>
    /\ UNCHANGED evVars

\* The job's next predict call (lines 288-292, 325-335), on self.predictor as
\* it is now; after the last one the method returns.
JobPredict(r) ==
    /\ rpc[r] = "running"
    /\ \E fault \in ModelFaults :
        LET j == job[r]
            p == Head(j.todo)
            call == <<"predict", p.kind, p.prompt, p.multimask_output>>
        IN  IF imgPredictor = Deleted
            THEN SegmentReturn(r, JobRaised("AttributeError", j.calls))
            ELSE IF fault = "infer" \/ imgPredictor = 0 \/ curImage = "none"
            THEN SegmentReturn(r, JobRaised("predict failed", Append(j.calls, call)))
            ELSE LET out == predict(curImage, p.prompt, p.multimask_output)
                     masks == j.masks \o out.masks
                     scores == j.scores \o out.scores
                     result == prompted_result(masks, scores)
                 IN  IF Tail(j.todo) = <<>>
                     THEN SegmentReturn(r, JobAt("returned", Append(j.calls, call),
                                                 <<>>, result.masks, result.scores))
                     ELSE /\ job' = [job EXCEPT ![r] =
                                        JobAt("predict", Append(j.calls, call),
                                              Tail(j.todo), masks, scores)]
                          /\ resp' = NoResponse
                          /\ UNCHANGED <<rpc, req>>
    /\ UNCHANGED <<sam2Installed, ckpt, phase, predictor, model, imgPredictor,
                   built, loadPc, loadOutcome, curImage, queue>>
    /\ UNCHANGED evVars

(***************************************************************************)
(* shutdown_event (main.py:71-77).                                         *)
(***************************************************************************)
\* SAM2Predictor.cleanup: the two attributes after it.
cleanup ==
    [model |-> IF model # 0 THEN Deleted ELSE model,
     predictor |-> IF imgPredictor # 0 THEN Deleted ELSE imgPredictor]

\* shutdown_event up to where executor.shutdown(wait=True) blocks: the
\* predictor is cleaned up first. The handler has no await: requests in
\* flight stay where they are, their jobs go on in the workers.
ShutdownBegin ==
    /\ phase = "serving"
    /\ phase' = "stopping"
    /\ IF predictor # "None"
       THEN model' = cleanup.model /\ imgPredictor' = cleanup.predictor
       ELSE UNCHANGED <<model, imgPredictor>>
    /\ resp' = NoResponse
    /\ UNCHANGED <<sam2Installed, ckpt, predictor, built, loadPc, loadOutcome,
                   curImage, segVars>>
    /\ UNCHANGED evVars

\* executor.shutdown(wait=True) returns: every job submitted has run.
ShutdownEnd ==
    /\ phase = "stopping"
    /\ queue = <<>>
    /\ Running = {}
    /\ phase' = "stopped"
    /\ resp' = NoResponse
    /\ UNCHANGED <<sam2Installed, ckpt, predictor, model, imgPredictor, built,
                   loadPc, loadOutcome, curImage, segVars>>
    /\ UNCHANGED evVars

Next ==
    \/ StartupBegin
    \/ StartupDownloadEnd
    \/ \E t \in LoadIds : LoadModelCall(t)
    \/ \E t \in LoadIds : LoadDownloadEnd(t)
    \/ Health
    \/ Ping
    \/ \E r \in ReqIds, q \in SegmentInputs : SegmentCall(r, q)
    \/ \E r \in ReqIds : JobStart(r)
    \/ \E r \in ReqIds : JobPredict(r)

Spec == Init /\ [][Next]_vars

(***************************************************************************)
(* SpecEverything: segment_everything on every candidate list, in a        *)
(* service whose startup loaded the model.                                 *)
(***************************************************************************)
EvInit ==
    /\ evInput \in GeneratedLists
    /\ evOutput = <<>>
    /\ encInput = <<>>
    /\ encOutput = <<>>
    /\ sam2Installed = TRUE
    /\ ckpt = "complete"
    /\ phase = "serving"
    /\ predictor = "Obj"
    /\ model = 1
    /\ imgPredictor = 1
    /\ built = 1
    /\ loadPc = [t \in LoadIds |-> "idle"]
    /\ loadOutcome = "ok"
    /\ curImage = "none"
    /\ rpc = [r \in ReqIds |-> "idle"]
    /\ req = [r \in ReqIds |-> NoRequest]
    /\ job = [r \in ReqIds |-> NoJob]
    /\ queue = <<>>
    /\ resp = NoResponse

\* segment_everything runs on the generated list; evOutput holds its result.
RunEverything ==
    /\ evOutput = <<>>
    /\ evOutput' = <<segment_everything(evInput)>>
    /\ UNCHANGED <<evInput, encInput, encOutput>>
    /\ UNCHANGED svcVars

EvNext == RunEverything

SpecEverything == EvInit /\ [][EvNext]_vars

(***************************************************************************)
(* SpecGreedy: segment_everything on every short candidate list and on     *)
(* lists of about max_masks candidates led by few free ones.               *)
(***************************************************************************)
GreedyLists ==
    {CandList(free, 0) : free \in FreeLists(MaxCands)}
    \cup {CandList(h[1], h[2]) : h \in FreeLists(GreedyHeadLen) \X FillCounts}

GreedyInit ==
    /\ evInput \in GreedyLists
    /\ evOutput = <<>>
    /\ encInput = <<>>
    /\ encOutput = <<>>
    /\ sam2Installed = TRUE
    /\ ckpt = "complete"
    /\ phase = "serving"
    /\ predictor = "Obj"
    /\ model = 1
    /\ imgPredictor = 1
    /\ built = 1
    /\ loadPc = [t \in LoadIds |-> "idle"]
    /\ loadOutcome = "ok"
    /\ curImage = "none"
    /\ rpc = [r \in ReqIds |-> "idle"]
    /\ req = [r \in ReqIds |-> NoRequest]
    /\ job = [r \in ReqIds |-> NoJob]
    /\ queue = <<>>
    /\ resp = NoResponse

SpecGreedy == GreedyInit /\ [][EvNext]_vars

(***************************************************************************)
(* SpecEncode: segment_image builds the response from what inference       *)
(* returned, in a service whose startup loaded the model.                  *)
(***************************************************************************)
\* The boolean arrays of up to MaskH rows and MaskW columns.
AllMasks ==
    UNION {[1..h -> [1..w -> BOOLEAN]] : h \in 1..MaskH, w \in 1..MaskW}

\* Two masks of one shape for the longer lists.
SampleMasks == {<<<<TRUE, FALSE>>>>, <<<<TRUE, TRUE>>>>}

\* The request's image, of the size of the masks computed on it, and what
\* inference returned for it.
InferenceResult(masks, failed) ==
    [masks |-> masks, scores |-> [i \in DOMAIN masks |-> i], failed |-> failed,
     mode |-> "points",
     image |-> [size |-> IF masks = <<>> THEN <<2, 1>>
                         ELSE <<Width(masks[1]), Height(masks[1])>>]]

\* One mask of any shape, or up to EncListLen sample masks; the encoding of
\* any of them may raise.
EncInputs ==
    {InferenceResult(<<m>>, f) : m \in AllMasks, f \in SUBSET {1}}
    \cup UNION {{InferenceResult(ms, f) : ms \in [1..n -> SampleMasks],
                                          f \in SUBSET (1..n)} : n \in 0..EncListLen}

EncInit ==
    /\ evInput = <<>>
    /\ evOutput = <<>>
    /\ encInput \in EncInputs
    /\ encOutput = <<>>
    /\ sam2Installed = TRUE
    /\ ckpt = "complete"
    /\ phase = "serving"
    /\ predictor = "Obj"
    /\ model = 1
    /\ imgPredictor = 1
    /\ built = 1
    /\ loadPc = [t \in LoadIds |-> "idle"]
    /\ loadOutcome = "ok"
    /\ curImage = "none"
    /\ rpc = [r \in ReqIds |-> "idle"]
    /\ req = [r \in ReqIds |-> NoRequest]
    /\ job = [r \in ReqIds |-> NoJob]
    /\ queue = <<>>
    /\ resp = NoResponse

\* segment_image builds the response; encOutput holds it.
RunEncode ==
    /\ encOutput = <<>>
    /\ encOutput' = <<segment_response(encInput)>>
    /\ UNCHANGED <<evInput, evOutput, encInput>>
    /\ UNCHANGED svcVars

EncNext == RunEncode

SpecEncode == EncInit /\ [][EncNext]_vars

(***************************************************************************)
(* SpecPool: segment requests, their jobs on the executor and the          *)
(* lightweight endpoints, in a service whose startup loaded the model.     *)
(***************************************************************************)
PoolReqIds == 1..PoolReqs

\* Requests that differ in image and mode: a point on imgA, a box on imgB.
PoolInputs ==
    {Request("imgA", "points", Json(<<Point(1)>>), Absent),
     Request("imgB", "boxes", Absent, Json(<<Box(1)>>))}

PoolInit ==
    /\ evInput = <<>>
    /\ evOutput = <<>>
    /\ encInput = <<>>
    /\ encOutput = <<>>
    /\ sam2Installed = TRUE
    /\ ckpt = "complete"
    /\ phase = "serving"
    /\ predictor = "Obj"
    /\ model = 1
    /\ imgPredictor = 1
    /\ built = 1
    /\ loadPc = [t \in LoadIds |-> "idle"]
    /\ loadOutcome = "ok"
    /\ curImage = "none"
    /\ rpc = [r \in PoolReqIds |-> "idle"]
    /\ req = [r \in PoolReqIds |-> NoRequest]
    /\ job = [r \in PoolReqIds |-> NoJob]
    /\ queue = <<>>
    /\ resp = NoResponse

PoolNext ==
    \/ Health
    \/ Ping
    \/ \E r \in PoolReqIds, q \in PoolInputs : SegmentCall(r, q)
    \/ \E r \in PoolReqIds : JobStart(r)
    \/ \E r \in PoolReqIds : JobPredict(r)

SpecPool == PoolInit /\ [][PoolNext]_vars

(***************************************************************************)
(* SpecFair: segment requests and their jobs on the executor, where every  *)
(* model call returns or raises and a worker that can go on does: a job    *)
(* that a free worker can take is taken, and a running job makes its next  *)
(* model call.                                                             *)
(***************************************************************************)
FairReqIds == 1..FairReqs

FairInit ==
    /\ evInput = <<>>
    /\ evOutput = <<>>
    /\ encInput = <<>>
    /\ encOutput = <<>>
    /\ sam2Installed = TRUE
    /\ ckpt = "complete"
    /\ phase = "serving"
    /\ predictor = "Obj"
    /\ model = 1
    /\ imgPredictor = 1
    /\ built = 1
    /\ loadPc = [t \in LoadIds |-> "idle"]
    /\ loadOutcome = "ok"
    /\ curImage = "none"
    /\ rpc = [r \in FairReqIds |-> "idle"]
    /\ req = [r \in FairReqIds |-> NoRequest]
    /\ job = [r \in FairReqIds |-> NoJob]
    /\ queue = <<>>
    /\ resp = NoResponse

FairNext ==
    \/ \E r \in FairReqIds, q \in PoolInputs : SegmentCall(r, q)
    \/ \E r \in FairReqIds : JobStart(r)
    \/ \E r \in FairReqIds : JobPredict(r)

SpecFair ==
    /\ FairInit
    /\ [][FairNext]_vars
    /\ WF_vars(\E r \in FairReqIds : JobStart(r))
    /\ \A r \in FairReqIds : WF_vars(JobPredict(r))

(***************************************************************************)
(* SpecShutdown: a service whose startup loaded the model serves segment   *)
(* requests and is shut down.                                              *)
(***************************************************************************)
ShutdownInit ==
    /\ evInput = <<>>
    /\ evOutput = <<>>
    /\ encInput = <<>>
    /\ encOutput = <<>>
    /\ sam2Installed = TRUE
    /\ ckpt = "complete"
    /\ phase = "serving"
    /\ predictor = "Obj"
    /\ model = 1
    /\ imgPredictor = 1
    /\ built = 1
    /\ loadPc = [t \in LoadIds |-> "idle"]
    /\ loadOutcome = "ok"
    /\ curImage = "none"
    /\ rpc = [r \in FairReqIds |-> "idle"]
    /\ req = [r \in FairReqIds |-> NoRequest]
    /\ job = [r \in FairReqIds |-> NoJob]
    /\ queue = <<>>
    /\ resp = NoResponse

ShutdownNext ==
    \/ \E r \in FairReqIds, q \in PoolInputs : SegmentCall(r, q)
    \/ \E r \in FairReqIds : JobStart(r)
    \/ \E r \in FairReqIds : JobPredict(r)
    \/ ShutdownBegin
    \/ ShutdownEnd

SpecShutdown == ShutdownInit /\ [][ShutdownNext]_vars

(***************************************************************************)
(* SpecSegment: segment requests of every mode, with the prompts the mode  *)
(* reads and those it does not, in a service whose startup loaded the      *)
(* model.                                                                  *)
(***************************************************************************)
OnePoint == Json(<<Point(1)>>)
OneBox == Json(<<Box(1)>>)

\* ManyBoxes boxes, of which the second repeats the first.
ManyBoxList == [i \in 1..ManyBoxes |-> IF i = 2 THEN Box(1) ELSE Box(i)]

\* Each mode with both prompts sent; boxes with the same box twice and with
\* ManyBoxes boxes; 'everything' with a points field that is not JSON; and
\* the combinations _segment refuses.
SegmentModeInputs ==
    {Request("imgA", "everything", OnePoint, OneBox),
     Request("imgA", "points", OnePoint, OneBox),
     Request("imgA", "boxes", OnePoint, Json(<<Box(1), Box(1)>>)),
     Request("imgA", "boxes", Absent, Json(ManyBoxList)),
     Request("imgA", "everything", Malformed, OneBox),
     Request("imgA", "bogus", OnePoint, OneBox),
     Request("imgA", "points", Absent, OneBox),
     Request("imgA", "points", Json(<<>>), OneBox),
     Request("imgA", "boxes", OnePoint, Absent),
     Request("imgA", "boxes", OnePoint, Json(<<>>))}

SegmentInit ==
    /\ evInput = <<>>
    /\ evOutput = <<>>
    /\ encInput = <<>>
    /\ encOutput = <<>>
    /\ sam2Installed = TRUE
    /\ ckpt = "complete"
    /\ phase = "serving"
    /\ predictor = "Obj"
    /\ model = 1
    /\ imgPredictor = 1
    /\ built = 1
    /\ loadPc = [t \in LoadIds |-> "idle"]
    /\ loadOutcome = "ok"
    /\ curImage = "none"
    /\ rpc = [r \in ReqIds |-> "idle"]
    /\ req = [r \in ReqIds |-> NoRequest]
    /\ job = [r \in ReqIds |-> NoJob]
    /\ queue = <<>>
    /\ resp = NoResponse

SegmentNext ==
    \/ \E r \in ReqIds, q \in SegmentModeInputs : SegmentCall(r, q)
    \/ \E r \in ReqIds : JobStart(r)
    \/ \E r \in ReqIds : JobPredict(r)

SpecSegment == SegmentInit /\ [][SegmentNext]_vars

(***************************************************************************)
(* Claims about the post-processing, under SpecEverything.                 *)
(***************************************************************************)
\* |a \cap b| / |a \cup b| <= 0.6, the quotient taken as 0 for an empty union.
IoUAtMostThreshold(a, b) ==
    \/ a \cup b = {}
    \/ 10 * Cardinality(a \cap b) <= 6 * Cardinality(a \cup b)

\* C6: in an 'everything' response every two masks at distinct places have
\* IoU <= 0.6.
C6_PairwiseIoU ==
    \A k \in 1..Len(evOutput) :
        \A i, j \in 1..Len(evOutput[k].masks) :
            i # j => IoUAtMostThreshold(evOutput[k].masks[i], evOutput[k].masks[j])

\* C6's case: the generator returned two candidates that overlap by more than
\* 0.6, and the response still holds several masks.
C6_Witness ==
    /\ evOutput # <<>>
    /\ Len(evOutput[1].masks) >= 3
    /\ \E i, j \in 1..Len(evInput) :
           /\ i # j
           /\ ~IoUAtMostThreshold(evInput[i].segmentation, evInput[j].segmentation)

\* The ranking: candidate j of list c comes before candidate i when its score
\* is higher, or equal with j earlier in the list.
RankedBefore(c, j, i) ==
    \/ c[j].predicted_iou > c[i].predicted_iou
    \/ c[j].predicted_iou = c[i].predicted_iou /\ j < i

\* The candidates of c taken in ranking order from the set todo, each kept
\* unless it overlaps a kept one by more than 0.6: the places kept.
RECURSIVE Survivors(_, _, _)
Survivors(c, todo, kept) ==
    IF todo = {} THEN kept
    ELSE LET i == CHOOSE x \in todo : \A y \in todo \ {x} : RankedBefore(c, x, y)
         IN  Survivors(c, todo \ {i},
                       IF \A j \in kept :
                              IoUAtMostThreshold(c[i].segmentation, c[j].segmentation)
                       THEN kept \cup {i} ELSE kept)

\* The place in the response of survivor i among the survivors S.
PlaceAmong(c, S, i) == 1 + Cardinality({j \in S : RankedBefore(c, j, i)})

\* C7: an 'everything' response holds at most 25 masks, and they are the
\* highest-ranked survivors of the overlap suppression, in ranking order:
\* suppression comes first, truncation second.
C7_TopSurvivors ==
    \A k \in 1..Len(evOutput) :
        LET S == Survivors(evInput, DOMAIN evInput, {})
            n == IF Cardinality(S) < 25 THEN Cardinality(S) ELSE 25
            out == evOutput[k]
        IN  /\ Len(out.masks) <= 25
            /\ Len(out.masks) = n
            /\ Len(out.scores) = n
            /\ \A i \in S :
                   PlaceAmong(evInput, S, i) <= n =>
                       /\ out.masks[PlaceAmong(evInput, S, i)] = evInput[i].segmentation
                       /\ out.scores[PlaceAmong(evInput, S, i)] = evInput[i].predicted_iou

\* C7's case: more than 25 candidates survive the suppression, one of the 25
\* highest-ranked candidates was suppressed, and the response holds 25 masks.
C7_Witness ==
    /\ evOutput # <<>>
    /\ Len(evOutput[1].masks) = 25
    /\ Cardinality(Survivors(evInput, DOMAIN evInput, {})) > 25
    /\ \E i \in DOMAIN evInput :
           /\ i \notin Survivors(evInput, DOMAIN evInput, {})
           /\ Cardinality({j \in DOMAIN evInput : RankedBefore(evInput, j, i)}) < 25

\* C15: the post-processed list holds candidates of the generated list only,
\* each at most once (so never more than were generated), by descending
\* score, candidates of equal score in their order in the generated list;
\* the masks and scores returned are those of this list.
C15_StableSublist ==
    \A k \in 1..Len(evOutput) :
        LET kept == PostProcess(evInput)
            out == evOutput[k]
        IN  /\ Len(kept) <= Len(evInput)
            /\ Len(out.masks) = Len(kept)
            /\ Len(out.scores) = Len(kept)
            /\ \A i \in DOMAIN kept :
                   /\ kept[i].id \in DOMAIN evInput
                   /\ kept[i] = evInput[kept[i].id]
                   /\ out.masks[i] = kept[i].segmentation
                   /\ out.scores[i] = kept[i].predicted_iou
            /\ \A i, j \in DOMAIN kept :
                   i < j =>
                       \/ kept[i].predicted_iou > kept[j].predicted_iou
                       \/ /\ kept[i].predicted_iou = kept[j].predicted_iou
                          /\ kept[i].id < kept[j].id

\* C15's case: the generated list is not in score order, a candidate was
\* dropped, and two candidates of equal score and different masks were kept.
C15_Witness ==
    /\ evOutput # <<>>
    /\ Len(evOutput[1].masks) < Len(evInput)
    /\ \E i, j \in DOMAIN evInput :
           i < j /\ evInput[i].predicted_iou < evInput[j].predicted_iou
    /\ \E i, j \in DOMAIN evOutput[1].masks :
           /\ i < j
           /\ evOutput[1].scores[i] = evOutput[1].scores[j]
           /\ evOutput[1].masks[i] # evOutput[1].masks[j]
           /\ evOutput[1].masks[i] # {}
           /\ evOutput[1].masks[j] # {}

(***************************************************************************)
(* The reference suppression, under SpecGreedy.                            *)
(***************************************************************************)
\* The places S of list c as a sequence in ranking order.
InRankOrder(c, S) ==
    [p \in 1..Cardinality(S) |-> CHOOSE i \in S : PlaceAmong(c, S, i) = p]

\* C24: the 'everything' result is the reference greedy suppression. With A
\* the accepted candidates, a candidate is in A if and only if its IoU with
\* every candidate of A ranked before it is <= 0.6; the result is the first
\* 25 of A in ranking order (score descending, equal scores in list order);
\* the highest-ranked candidate leads every result of a non-empty list; and
\* every candidate not in A has IoU > 0.6 with one of A ranked before it.
C24_GreedySuppression ==
    \A k \in 1..Len(evOutput) :
        LET c == evInput
            A == Survivors(c, DOMAIN c, {})
            order == InRankOrder(c, A)
            out == evOutput[k]
        IN  /\ \A i \in DOMAIN c :
                   i \in A <=>
                       \A j \in A : RankedBefore(c, j, i) =>
                           IoUAtMostThreshold(c[i].segmentation, c[j].segmentation)
            /\ out.masks = Take([p \in DOMAIN order |-> c[order[p]].segmentation], 25)
            /\ out.scores = Take([p \in DOMAIN order |-> c[order[p]].predicted_iou], 25)
            /\ c # <<>> =>
                   /\ out.masks # <<>>
                   /\ \E top \in DOMAIN c :
                          /\ \A y \in DOMAIN c \ {top} : RankedBefore(c, top, y)
                          /\ out.masks[1] = c[top].segmentation
                          /\ out.scores[1] = c[top].predicted_iou
            /\ \A i \in DOMAIN c \ A :
                   \E j \in A :
                       /\ RankedBefore(c, j, i)
                       /\ ~IoUAtMostThreshold(c[i].segmentation, c[j].segmentation)

\* C24's case: two candidates of IoU exactly 0.6 are both in the result, and
\* a third candidate was dropped.
C24_Witness ==
    /\ evOutput # <<>>
    /\ \E i, j \in Survivors(evInput, DOMAIN evInput, {}) :
           /\ i # j
           /\ 10 * Cardinality(evInput[i].segmentation \cap evInput[j].segmentation)
                  = 6 * Cardinality(evInput[i].segmentation \cup evInput[j].segmentation)
           /\ evInput[i].segmentation # {}
           /\ \E a, b \in DOMAIN evOutput[1].masks :
                  /\ a # b
                  /\ evOutput[1].masks[a] = evInput[i].segmentation
                  /\ evOutput[1].masks[b] = evInput[j].segmentation
    /\ Survivors(evInput, DOMAIN evInput, {}) # DOMAIN evInput

(***************************************************************************)
(* Claims about the response's entries, under SpecEncode.                  *)
(***************************************************************************)
\* C16: whichever masks fail to encode, the request succeeds with one entry
\* per mask inference returned; the entry of a mask that failed has the
\* payload '' and the id, score and area of its mask, and every other entry
\* is the entry of the response in which no encoding failed.
C16_EncodingFailureContained ==
    \A k \in 1..Len(encOutput) :
        LET out == encOutput[k]
            clean == encoded_masks(encInput.masks, encInput.scores, {})
        IN  /\ out.code = 200
            /\ out.body.success = TRUE
            /\ out.body.num_masks = Len(encInput.masks)
            /\ Len(out.body.masks) = Len(encInput.masks)
            /\ \A i \in DOMAIN encInput.masks :
                   IF i \in encInput.failed
                   THEN /\ out.body.masks[i].mask = <<>>
                        /\ out.body.masks[i].id = i - 1
                        /\ out.body.masks[i].score = encInput.scores[i]
                        /\ out.body.masks[i].area = np_sum(encInput.masks[i])
                   ELSE /\ out.body.masks[i] = clean[i]
                        /\ out.body.masks[i].mask # <<>>

\* C16's case: of several masks one failed to encode and another did not.
C16_Witness ==
    /\ encOutput # <<>>
    /\ Len(encInput.masks) >= 2
    /\ encInput.failed # {}
    /\ encInput.failed # DOMAIN encInput.masks

\* C17: the payload of an encoded mask is an image of the mask's height and
\* width whose pixels are 255 where the mask is true and 0 where it is
\* false, and decoding the payload gives the mask back.
C17_RoundTrip ==
    \A k \in 1..Len(encOutput) :
        \A i \in DOMAIN encInput.masks :
            i \notin encInput.failed =>
                LET mask == encInput.masks[i]
                    payload == encOutput[k].body.masks[i].mask
                    image == open_png(b64decode(payload))
                IN  /\ image.size = <<Width(mask), Height(mask)>>
                    /\ \A r \in 1..Height(mask), c \in 1..Width(mask) :
                           image.rows[r][c] = IF mask[r][c] THEN 255 ELSE 0
                    /\ decode_mask(payload) = mask

\* C17's case: a mask that is not square, with true and false pixels, was
\* encoded.
C17_Witness ==
    /\ encOutput # <<>>
    /\ \E i \in DOMAIN encInput.masks :
           /\ i \notin encInput.failed
           /\ Height(encInput.masks[i]) # Width(encInput.masks[i])
           /\ np_sum(encInput.masks[i]) \notin
                  {0, Height(encInput.masks[i]) * Width(encInput.masks[i])}
           /\ encOutput[1].body.masks[i].mask # <<>>

\* C21: a successful response with n masks has num_masks = n, one entry per
\* mask inference returned, the ids 0..n-1 in list order, each entry's area
\* the number of true pixels of its mask and its score the score at the
\* mask's index, and image_shape the image's (height, width).
C21_ResponseEntries ==
    \A k \in 1..Len(encOutput) :
        LET out == encOutput[k]
            n == Len(out.body.masks)
        IN  out.code = 200 =>
                /\ out.body.num_masks = n
                /\ n = Len(encInput.masks)
                /\ \A i \in 1..n :
                       LET mask == encInput.masks[i]
                       IN  /\ out.body.masks[i].id = i - 1
                           /\ out.body.masks[i].score = encInput.scores[i]
                           /\ out.body.masks[i].area =
                                  Cardinality({rc \in (DOMAIN mask) \X (DOMAIN mask[1]) :
                                                  mask[rc[1]][rc[2]]})
                /\ out.body.image_shape =
                       <<encInput.image.size[2], encInput.image.size[1]>>

\* C21's case: a response with two masks of different areas and scores on an
\* image that is not square.
C21_Witness ==
    /\ encOutput # <<>>
    /\ encOutput[1].code = 200
    /\ encOutput[1].body.num_masks = 2
    /\ encOutput[1].body.masks[1].area # encOutput[1].body.masks[2].area
    /\ encOutput[1].body.masks[1].score # encOutput[1].body.masks[2].score
    /\ encInput.image.size[1] # encInput.image.size[2]

(***************************************************************************)
(* Claims about the service, under Spec.                                   *)
(***************************************************************************)
\* The load_model calls under way: the one of startup_event and those of
\* /load-model requests.
LoadsInProgress ==
    Cardinality({t \in LoadIds : Downloading(t)})
        + (IF phase = "startup_download" THEN 1 ELSE 0)

\* C1: at no time are two load operations in progress, whatever the
\* interleaving of POST /load-model calls.
C1_SingleLoad == LoadsInProgress <= 1

\* C2: while the model is not Ready no inference job is submitted or running,
\* and a segment request just answered got 503. (Ready is never left, so a
\* job in flight outside Ready was submitted outside Ready.)
C2_NotReady503 ==
    ModelState # "Ready" =>
        /\ \A r \in ReqIds : rpc[r] = "idle"
        /\ queue = <<>>
        /\ resp.op = "segment" => resp.code = 503

\* C3: GET /health answers 200 with service_running = true in every state of
\* the running service, whatever the model state and whatever requests are
\* in flight, and the step that answers it changes nothing of the model's
\* lifecycle.
C3_HealthAlways200 ==
    /\ [](phase = "serving" => ENABLED Health)
    /\ [](resp.op = "health" =>
            /\ resp.code = 200
            /\ resp.body.status = "healthy"
            /\ resp.body.service_running = TRUE)
    /\ [][resp'.op = "health" =>
            /\ UNCHANGED lifeVars
            /\ UNCHANGED segVars
            /\ ModelState' = ModelState]_vars

\* C3's case: /health answered after a load attempt failed, with a segment
\* request's job in flight.
C3_Witness ==
    /\ resp.op = "health"
    /\ resp.code = 200
    /\ ModelState = "Failed"
    /\ \E r \in ReqIds : rpc[r] # "idle"

\* C4: a segment request whose image bytes cannot be decoded, sent to a
\* Ready service, is answered 400 'Invalid image data'.
C4_BadImage400 ==
    (resp.op = "segment" /\ resp.req.image = "bad" /\ ModelState = "Ready") =>
        /\ resp.code = 400
        /\ resp.detail = "Invalid image data"

\* The mode/prompt combinations of a request form that are invalid: a mode
\* that is none of the three, 'points' with no or zero points, 'boxes' with
\* no or zero boxes.
InvalidCombination(q) ==
    \/ q.mode \notin {"everything", "points", "boxes"}
    \/ q.mode = "points" /\ q.points \in {Absent, Json(<<>>)}
    \/ q.mode = "boxes" /\ q.boxes \in {Absent, Json(<<>>)}

\* C5: a segment request with an invalid mode/prompt combination, on a good
\* image and sent to a Ready service, is answered 400.
C5_InvalidRequest400 ==
    (/\ resp.op = "segment"
     /\ ModelState = "Ready"
     /\ resp.req.image # "bad"
     /\ InvalidCombination(resp.req)) => resp.code = 400

\* The boxes a request form carries.
BoxesOf(q) == IF q.boxes.kind = "json" THEN q.boxes.value ELSE <<>>

\* The model calls a 'boxes' request with the boxes b on image img is to
\* make: one set_image, then one single-mask predict per box, in input order.
BoxCalls(img, b) ==
    <<<<"set_image", img>>>>
        \o [i \in DOMAIN b |-> <<"predict", "box", b[i], FALSE>>]

IsPrefix(s, t) == Len(s) <= Len(t) /\ \A i \in DOMAIN s : s[i] = t[i]

\* C8: the model calls made for a 'boxes' request are, in order, one
\* set_image and then one single-mask predict per box in input order (a
\* request that fails stops short); a request with k boxes that succeeds made
\* all k predict calls, and its response holds k masks, mask i the one
\* predict returned for box i.
C8_BoxesOnePerBox ==
    (resp.op = "segment" /\ resp.req.mode = "boxes") =>
        LET b == BoxesOf(resp.req)
            expected == BoxCalls(resp.req.image, b)
        IN  /\ IsPrefix(resp.calls, expected)
            /\ resp.code = 200 =>
                /\ resp.calls = expected
                /\ resp.body.num_masks = Len(b)
                /\ Len(resp.body.masks) = Len(b)
                /\ \A i \in DOMAIN b :
                       /\ resp.body.masks[i].id = i - 1
                       /\ resp.body.masks[i].mask.prompt = b[i]
                       /\ resp.body.masks[i].mask.n = 1

\* C8's case: a 'boxes' request with several boxes was answered with success.
C8_Witness ==
    /\ resp.op = "segment"
    /\ resp.req.mode = "boxes"
    /\ resp.code = 200
    /\ Len(BoxesOf(resp.req)) >= 2

\* C9: /health reports model_loaded = true exactly when the model is
\* inference-ready (a valid segment request would not fail with 'Model not
\* loaded').
C9_ModelLoadedIffReady ==
    resp.op = "health" => (resp.body.model_loaded <=> ModelState = "Ready")

\* C10: after a failed load attempt, with no other attempt under way, /health
\* does not answer as it does while a load is in progress.
C10_HealthReportsFailure ==
    (resp.op = "health" /\ ModelState = "Failed") =>
        resp.body.message # "Model loading in progress..."

\* The messages of the exceptions load_model raises.
LoadFailures ==
    {"SAM 2 package not found", "download failed", "build_sam2 failed",
     "SAM2ImagePredictor failed"}

\* C11: a failure of load_model does not leave its caller. Startup goes on
\* to serve whatever load_model did; a /load-model request whose load_model
\* call raised is answered 200 with status 'error' and the exception's
\* message; and in every state of the serving service /health and /ping are
\* answered, with 200.
C11_LoadFailureContained ==
    /\ [](phase = "boot" => ENABLED StartupBegin)
    /\ [](phase = "startup_download" => ENABLED StartupDownloadEnd)
    /\ [][(phase # "serving" /\ loadOutcome' = "failed") => phase' = "serving"]_vars
    /\ []((resp.op = "load-model" /\ resp.load = "raised") =>
            /\ resp.code = 200
            /\ resp.body.status = "error"
            /\ resp.body.message \in LoadFailures)
    /\ [](phase = "serving" => ENABLED Health /\ ENABLED Ping)
    /\ [](resp.op \in {"health", "ping"} => resp.code = 200)

\* C11's case: a /load-model request whose load_model call raised was
\* answered by the serving service.
C11_Witness ==
    /\ resp.op = "load-model"
    /\ resp.load = "raised"
    /\ resp.body.status = "error"
    /\ phase = "serving"

\* The steps of the model state: those of the design, and the two-step
\* paths through Loading that a single step of the event loop makes when
\* load_model does not suspend (the checkpoint file is there).
StateSteps ==
    {<<"Unloaded", "Loading">>, <<"Loading", "Ready">>, <<"Loading", "Failed">>,
     <<"Failed", "Loading">>,
     <<"Unloaded", "Ready">>, <<"Unloaded", "Failed">>, <<"Failed", "Ready">>}

\* C12: the model state changes by the steps of the design only, and a Ready
\* service stays Ready with the model instance and the image predictor it has.
C12_StateSteps ==
    [][/\ ModelState' # ModelState => <<ModelState, ModelState'>> \in StateSteps
       /\ ModelState = "Ready" =>
              /\ ModelState' = "Ready"
              /\ model' = model
              /\ imgPredictor' = imgPredictor]_vars

\* C13: a POST /load-model answered in a Failed state ran load_model (it did
\* not return without a load attempt), and a load_model call that returned
\* leaves the service Ready.
C13_ReloadFromFailed ==
    resp.op = "load-model" =>
        /\ ModelState = "Failed" => resp.load # "none"
        /\ resp.load = "returned" => ModelState = "Ready"

\* C14: a POST /load-model handled while the model is Ready is answered at
\* once with status 'success', runs no load_model (no download, no build)
\* and leaves the lifecycle, the model instance and the requests in flight
\* as they are; so any number of them has the effect of one. It is accepted
\* in every Ready state.
C14_LoadWhenReadyNoOp ==
    /\ [][\A t \in LoadIds :
             (ModelState = "Ready" /\ LoadModelCall(t)) =>
                 /\ resp'.op = "load-model"
                 /\ resp'.code = 200
                 /\ resp'.body.status = "success"
                 /\ resp'.load = "none"
                 /\ UNCHANGED lifeVars
                 /\ UNCHANGED segVars
                 /\ ModelState' = "Ready"]_vars
    /\ []((ModelState = "Ready" /\ \E t \in LoadIds : loadPc[t] = "idle") =>
            \E t \in LoadIds : ENABLED LoadModelCall(t))

\* C14's case: a /load-model request was answered without a load attempt by a
\* Ready service.
C14_Witness ==
    /\ ModelState = "Ready"
    /\ resp.op = "load-model"
    /\ resp.load = "none"
    /\ resp.body.message = "Model already loaded"

\* C19: a /load-model request whose load built a model was suspended on the
\* worker pool before its load ended (so that the loop was free for /health
\* while the load was in progress): the step that ends it resumes a request
\* that was awaiting the pool.
C19_LoadOffLoop ==
    [][(resp'.op = "load-model" /\ built' # built) =>
          \E t \in LoadIds : Downloading(t) /\ loadPc'[t] = "idle"]_vars

(***************************************************************************)
(* Claims about the worker pool, under SpecPool.                           *)
(***************************************************************************)
\* C18: whatever inference jobs are queued or running, /health and /ping are
\* answered (they wait for no job), with 200, and their steps leave the
\* executor's queue and jobs alone.
C18_LightweightNotStarved ==
    /\ [](ENABLED Health /\ ENABLED Ping)
    /\ [](resp.op \in {"health", "ping"} => resp.code = 200)
    /\ [][resp'.op \in {"health", "ping"} =>
             UNCHANGED <<rpc, req, job, queue, curImage>>]_vars

\* C18's case: /health was answered with both workers busy and a job queued.
C18_Witness ==
    /\ resp.op = "health"
    /\ Cardinality(Running) = 2
    /\ queue # <<>>

\* The model calls of request form q begin with set_image on its image.
CallsOf(q, calls) ==
    /\ calls # <<>>
    /\ calls[1] = <<"set_image", q.image>>
    /\ \A i \in 2..Len(calls) :
           /\ calls[i][1] = "predict"
           /\ calls[i][3] = (IF q.mode = "points" THEN q.points.value
                             ELSE q.boxes.value[i - 1])

\* C20: at most 2 jobs execute at a time; a segment request is accepted
\* whatever the workers do, and its job joins the end of the queue; the job
\* that starts is the oldest queued one, and it can start as soon as a
\* worker is free; a response carries the outcome of the job that ran with
\* its own request's arguments: its model calls and its masks are those of
\* the request's prompt.
C20_BoundedFifoPool ==
    /\ [](Cardinality(Running) <= 2)
    /\ []((\E r \in DOMAIN rpc : rpc[r] = "idle") =>
            \E r \in DOMAIN rpc : \A q \in PoolInputs : ENABLED SegmentCall(r, q))
    /\ [][\A r \in DOMAIN rpc :
             /\ (rpc[r] = "idle" /\ rpc'[r] # "idle") =>
                    /\ rpc'[r] = "queued"
                    /\ queue' = Append(queue, r)
             /\ (rpc[r] = "queued" /\ rpc'[r] # "queued") =>
                    /\ queue # <<>>
                    /\ r = Head(queue)
                    /\ queue' = Tail(queue)
                    /\ Cardinality(Running) < 2]_vars
    /\ []((queue # <<>> /\ Cardinality(Running) < 2) => ENABLED JobStart(Head(queue)))
    /\ [](resp.op = "segment" =>
            /\ CallsOf(resp.req, resp.calls)
            /\ resp.code = 200 =>
                   /\ resp.body.mode = resp.req.mode
                   /\ resp.body.masks # <<>>
                   /\ \A i \in DOMAIN resp.body.masks :
                          resp.body.masks[i].mask.prompt
                              = (IF resp.req.mode = "points" THEN resp.req.points.value
                                 ELSE resp.req.boxes.value[i]))

\* C20's case: both workers are busy and the jobs of two different requests
\* wait in the queue.
C20_Witness ==
    /\ Cardinality(Running) = 2
    /\ Len(queue) >= 2
    /\ req[queue[1]].form # req[queue[2]].form

\* The message of the exception the model raised in the last of calls.
CauseOf(calls) ==
    LET c == calls[Len(calls)]
    IN  IF c[1] = "generate" THEN "generate failed"
        ELSE IF c[1] = "set_image" THEN "set_image failed"
        ELSE "predict failed"

\* C23: a step in which the model raises for a job answers that job's
\* request with a 500 whose detail is the exception's message, frees the
\* job's worker, and leaves the model, the predictor's image, the queue and
\* every other request and job as they were; after it the model state is
\* Ready and a new segment request is accepted.
C23_InferenceFailureContained ==
    /\ [][(resp'.op = "segment" /\ resp'.code = 500) =>
             \E r \in DOMAIN rpc :
                 /\ rpc[r] # "idle"
                 /\ resp'.req = req[r].form
                 /\ resp'.calls # <<>>
                 /\ resp'.detail = CauseOf(resp'.calls)
                 /\ rpc'[r] = "idle"
                 /\ Cardinality(Running') <= Cardinality(Running)
                 /\ \A u \in DOMAIN rpc \ {r} :
                        rpc'[u] = rpc[u] /\ req'[u] = req[u] /\ job'[u] = job[u]
                 /\ queue' = SelectSeq(queue, LAMBDA u : u # r)
                 /\ <<predictor, model, imgPredictor, curImage>>'
                        = <<predictor, model, imgPredictor, curImage>>]_vars
    /\ []((resp.op = "segment" /\ resp.code = 500) =>
             /\ ModelState = "Ready"
             /\ ENABLED (\E r \in DOMAIN rpc, q \in PoolInputs : SegmentCall(r, q)))

\* C23's case: the model raised in a predict call while another request's
\* job runs and a third waits in the queue.
C23_Witness ==
    /\ resp.op = "segment"
    /\ resp.code = 500
    /\ resp.detail = "predict failed"
    /\ Running # {}
    /\ queue # <<>>

\* C26: every mask of a successful 'points' or 'boxes' response was computed
\* on the image of the response's request, and while a job is between its
\* set_image and its last predict the image set on the predictor is the
\* job's own.
C26_OwnImage ==
    /\ (resp.op = "segment" /\ resp.code = 200) =>
           \A i \in DOMAIN resp.body.masks :
               resp.body.masks[i].mask.image = resp.req.image
    /\ \A r \in Running : curImage = req[r].image

(***************************************************************************)
(* Progress of the jobs, under SpecFair.                                   *)
(***************************************************************************)
\* C27: a request whose job was submitted to the executor is done with in
\* the end, whatever waits ahead of it in the queue; and the one way a
\* submitted job leaves the executor is the step that answers its request,
\* with a result or an error, after the job ran: no job is dropped.
C27_EveryJobAnswered ==
    /\ \A r \in FairReqIds :
           (rpc[r] # "idle") ~> (rpc[r] = "idle" /\ resp.op = "segment")
    /\ [][\A r \in FairReqIds :
              /\ (rpc[r] # "idle" /\ rpc'[r] = "idle") =>
                     /\ resp'.op = "segment"
                     /\ resp'.req = req[r].form
                     /\ resp'.code \in {200, 500}
                     /\ resp'.calls # <<>>
              /\ (rpc[r] = "queued" /\ rpc'[r] = "queued") =>
                     \E i \in DOMAIN queue' : queue'[i] = r]_vars

\* C27's case: a job waits in the queue behind another while both workers
\* are busy.
C27_Witness ==
    /\ Cardinality(Running) = max_workers
    /\ Len(queue) >= 1
    /\ \E r \in DOMAIN rpc : rpc[r] = "queued" /\ queue[Len(queue)] = r

(***************************************************************************)
(* Claims about the prompted modes and the job's branch, under SpecSegment.*)
(***************************************************************************)
\* What the model returned to the predict calls among calls, made on image:
\* the masks and the scores, call after call.
RECURSIVE ModelReturned(_, _)
ModelReturned(image, calls) ==
    IF calls = <<>> THEN [masks |-> <<>>, scores |-> <<>>]
    ELSE LET c == Head(calls)
             rest == ModelReturned(image, Tail(calls))
         IN  IF c[1] # "predict" THEN rest
             ELSE LET out == predict(image, c[3], c[4])
                  IN  [masks |-> out.masks \o rest.masks,
                       scores |-> out.scores \o rest.scores]

\* C22: a successful 'points' or 'boxes' response holds every mask the model
\* returned to the job's predict calls, with its score, in the order
\* returned: three for the points, one per box, none dropped as a repeat,
\* none moved by its score, none cut at 25.
C22_PromptedUnfiltered ==
    (resp.op = "segment" /\ resp.code = 200 /\ resp.req.mode \in {"points", "boxes"}) =>
        LET out == ModelReturned(resp.req.image, resp.calls)
        IN  /\ resp.body.num_masks = Len(out.masks)
            /\ Len(resp.body.masks) = Len(out.masks)
            /\ Len(out.masks) = IF resp.req.mode = "points" THEN 3
                                ELSE Len(resp.req.boxes.value)
            /\ \A i \in DOMAIN out.masks :
                   /\ resp.body.masks[i].mask = out.masks[i]
                   /\ resp.body.masks[i].score = out.scores[i]

\* C22's case: a boxes response of more than 25 masks, two of them the same
\* mask.
C22_Witness ==
    /\ resp.op = "segment"
    /\ resp.code = 200
    /\ resp.req.mode = "boxes"
    /\ resp.body.num_masks > max_masks
    /\ \E i, j \in DOMAIN resp.body.masks :
           i < j /\ resp.body.masks[i].mask = resp.body.masks[j].mask

\* C25: a request with an invalid mode/prompt combination fails with no
\* model call made for it: its response is an error that lists no call, its
\* job never gets to run a model call, and the step that answers it leaves
\* the image set on the predictor as it was.
C25_InvalidBeforeModel ==
    /\ []((resp.op = "segment" /\ InvalidCombination(resp.req)) =>
             resp.code # 200 /\ resp.calls = <<>>)
    /\ [][\A r \in DOMAIN rpc :
              (rpc[r] # "idle" /\ InvalidCombination(req[r].form)) =>
                  /\ rpc'[r] \in {"queued", "idle"}
                  /\ job'[r] = NoJob
                  /\ rpc'[r] = "idle" =>
                         /\ resp'.op = "segment"
                         /\ resp'.req = req[r].form
                         /\ curImage' = curImage]_vars

\* C25's case: a 'points' request without points that carries a box was
\* answered.
C25_Witness ==
    /\ resp.op = "segment"
    /\ resp.req.mode = "points"
    /\ resp.req.points = Json(<<>>)
    /\ resp.req.boxes = OneBox
    /\ resp.code = 500
    /\ resp.detail = "Invalid segmentation mode"

\* A valid request: an image PIL can open, prompt fields that are JSON where
\* sent, and a mode that finds the prompt it reads.
ValidRequest(q) ==
    /\ q.image # "bad"
    /\ q.points # Malformed
    /\ q.boxes # Malformed
    /\ ~InvalidCombination(q)

\* The model calls of the strategy the mode of q names.
StrategyCalls(q) ==
    IF q.mode = "everything" THEN <<<<"generate", q.image>>>>
    ELSE IF q.mode = "points"
    THEN <<<<"set_image", q.image>>, <<"predict", "points", q.points.value, TRUE>>>>
    ELSE BoxCalls(q.image, q.boxes.value)

\* C28: the model calls made for a valid request are those of the one
\* strategy its mode names, whatever other prompt it carries: generate alone
\* for 'everything', set_image and one predict on the points for 'points',
\* set_image and one predict per box for 'boxes'. A job in which the model
\* raises stops short; a request that succeeds made them all.
C28_OneStrategyByMode ==
    (resp.op = "segment" /\ ValidRequest(resp.req)) =>
        /\ resp.calls # <<>>
        /\ IsPrefix(resp.calls, StrategyCalls(resp.req))
        /\ resp.code = 200 => resp.calls = StrategyCalls(resp.req)

\* C28's case: an 'everything' request that carries a point and a box
\* succeeded.
C28_Witness ==
    /\ resp.op = "segment"
    /\ resp.code = 200
    /\ resp.req.mode = "everything"
    /\ resp.req.points = OnePoint
    /\ resp.req.boxes = OneBox
    /\ resp.body.num_masks > 0

(***************************************************************************)
(* Shutdown, under SpecShutdown.                                           *)
(***************************************************************************)
\* C29: the model and the image predictor are released only when no job is
\* queued or running, and no job ends on reading a released attribute.
C29_ReleaseAfterJobs ==
    /\ (model = Deleted \/ imgPredictor = Deleted) =>
           \A r \in DOMAIN rpc : rpc[r] = "idle"
    /\ resp.op = "job" => resp.error # "AttributeError"
====
